---- MODULE Spec2Model ----
(***************************************************************************)
(* Model of .github/workflows/vb_script.py: the version bumper, the        *)
(* version file updater, the changelog section pruner and the changelog    *)
(* updater.                                                                *)
(*                                                                         *)
(* A Python string is a sequence of one-character strings; a file is the   *)
(* sequence of characters it holds; a list of lines is a sequence of       *)
(* strings.  Indices named as in the source (pntr1, pntr2,                 *)
(* end_of_section_index) are 0-based as in the source; element p of a      *)
(* Python list is element p + 1 of the sequence that models it.            *)
(***************************************************************************)
EXTENDS Integers, Sequences, FiniteSets, TLC

VARIABLES
    pc,                    \* position of the run in __main__
    version_file,          \* contents of the file at --version_path
    changelog_file,        \* contents of the file at --changelog_path
    template_file,         \* contents of ./.github/workflows/changelog_template.txt
    vf0,                   \* version_file as it was when the run started
    cl0,                   \* changelog_file as it was when the run started
    release_status,        \* args.release_status (pre_release)
    pl_release_status,     \* args.pl_release_status
    pl_version,            \* module global pl_version
    lines,                 \* update_version_file: lines
    idx,                   \* update_version_file: position of the for loop in lines (0-based)
    new_version,           \* update_version_file: new_version, Unbound until assigned
    error,                 \* the exception that ended the run, or "none"
    p_lines,               \* remove_empty_headers: the argument
    p_kept,                \* positions in p_lines of the lines of p_out
    p_out,                 \* remove_empty_headers(p_lines)
    p_again,               \* remove_empty_headers(p_out)
    p_pc                   \* how often remove_empty_headers has been applied

vars == <<pc, version_file, changelog_file, template_file, vf0, cl0, release_status,
          pl_release_status, pl_version, lines, idx, new_version, error,
          p_lines, p_kept, p_out, p_again, p_pc>>

mainVars == <<pc, version_file, changelog_file, template_file, vf0, cl0, release_status,
              pl_release_status, pl_version, lines, idx, new_version, error>>

pruneVars == <<p_lines, p_kept, p_out, p_again, p_pc>>

(***************************************************************************)
(* Bounds of the model.                                                    *)
(***************************************************************************)
MaxLines == 5      \* longest argument of remove_empty_headers
MaxMajor == 1      \* largest major component of the versions tried
MaxBody == 2       \* most lines between the changelog header and the rest

(***************************************************************************)
(* Python string and list primitives the script uses.                      *)
(***************************************************************************)
NL == "\n"

\* lst[a:b] for 0 <= a, with Python's clamping of b to len(lst).
Slice(lst, a, b) == SubSeq(lst, a + 1, IF b > Len(lst) THEN Len(lst) ELSE b)

\* lst[a:]
SliceFrom(lst, a) == SubSeq(lst, a + 1, Len(lst))

\* Index (1-based) of the first occurrence of character c in s, 0 if none.
FirstIndexOf(s, c) ==
    IF \E i \in 1..Len(s) : s[i] = c
    THEN CHOOSE i \in 1..Len(s) : s[i] = c /\ \A j \in 1..(i - 1) : s[j] # c
    ELSE 0

\* s.split(c) for a one-character separator c.
RECURSIVE Split(_, _)
Split(s, c) ==
    LET i == FirstIndexOf(s, c)
    IN  IF i = 0 THEN <<s>>
        ELSE <<SubSeq(s, 1, i - 1)>> \o Split(SubSeq(s, i + 1, Len(s)), c)

\* c.join(parts) for a one-character separator c.
RECURSIVE Join(_, _)
Join(parts, c) ==
    IF Len(parts) = 0 THEN <<>>
    ELSE IF Len(parts) = 1 THEN parts[1]
    ELSE parts[1] \o <<c>> \o Join(Tail(parts), c)

\* s.replace(old, new) for a non-empty old: every non-overlapping occurrence,
\* left to right.
RECURSIVE Replace(_, _, _)
Replace(s, old, new) ==
    IF Len(s) < Len(old) THEN s
    ELSE IF SubSeq(s, 1, Len(old)) = old
         THEN new \o Replace(SubSeq(s, Len(old) + 1, Len(s)), old, new)
         ELSE <<Head(s)>> \o Replace(Tail(s), old, new)

\* The concatenation of a list of strings (what f.writelines appends).
RECURSIVE Concat(_)
Concat(strs) == IF Len(strs) = 0 THEN <<>> ELSE Head(strs) \o Concat(Tail(strs))

\* f.readlines(): the contents cut after every line break, each line keeping
\* its line break; a last line without one is kept as it is.
RECURSIVE ReadLines(_)
ReadLines(content) ==
    LET i == FirstIndexOf(content, NL)
    IN  IF Len(content) = 0 THEN <<>>
        ELSE IF i = 0 THEN <<content>>
        ELSE <<SubSeq(content, 1, i)>> \o ReadLines(SubSeq(content, i + 1, Len(content)))

Digits == <<"0", "1", "2", "3", "4", "5", "6", "7", "8", "9">>

IsDigit(c) == \E d \in 1..10 : Digits[d] = c

DigitValue(c) == (CHOOSE d \in 1..10 : Digits[d] = c) - 1

\* int(s) succeeds on a non-empty string of decimal digits (the strings the
\* model feeds it are made of digits and letters only).
IsNumeric(s) == Len(s) > 0 /\ \A i \in 1..Len(s) : IsDigit(s[i])

\* int(s)
RECURSIVE ParseInt(_)
ParseInt(s) ==
    IF Len(s) = 0 THEN 0
    ELSE 10 * ParseInt(SubSeq(s, 1, Len(s) - 1)) + DigitValue(s[Len(s)])

\* str(n) for n >= 0
RECURSIVE IntToStr(_)
IntToStr(n) ==
    IF n < 10 THEN <<Digits[n + 1]>>
    ELSE IntToStr(n \div 10) \o <<Digits[(n % 10) + 1]>>

(***************************************************************************)
(* remove_empty_headers                                                    *)
(***************************************************************************)
\* (len(line2) >= 4) and (line2[:4] == "### ")
is_header(line2) == Len(line2) >= 4 /\ SubSeq(line2, 1, 4) = <<"#", "#", "#", " ">>

\* line2 == '\n'
is_blank(line2) == line2 = <<NL>>

\* (pntr1 == 0) or (not is_empty)
keep_section_mut(pntr1, is_empty) == ~is_empty
keep_section(pntr1, is_empty) == (pntr1 = 0) \/ ~is_empty

\* The positions of lines[a:b]; cleaned_lines is carried as the positions of
\* the lines it holds, so that a claim can tell two equal lines apart.
slice_positions_mut(a, b) == [k \in 1..(b - 1 - a) |-> a + k - 1]
slice_positions(a, b) == [k \in 1..(b - a) |-> a + k - 1]

\* for pntr2 in range(pntr1 + 1, len(lines)): the loop from pntr2 on, st holding
\* pntr1, is_empty and cleaned_lines.
RECURSIVE for_pntr2(_, _, _)
for_pntr2(lns, pntr2, st) ==
    IF pntr2 >= Len(lns) THEN st
    ELSE LET line2 == lns[pntr2 + 1]
         IN  for_pntr2(lns, pntr2 + 1,
                IF is_header(line2)
                THEN [pntr1 |-> pntr2,
                      is_empty |-> TRUE,
                      cleaned |-> IF keep_section(st.pntr1, st.is_empty)
                                  THEN st.cleaned \o slice_positions(st.pntr1, pntr2)
                                  ELSE st.cleaned]
                ELSE IF is_blank(line2) THEN st
                ELSE [st EXCEPT !.is_empty = FALSE])

\* while pntr1 < len(lines): the loop from pntr1 on.
RECURSIVE while_pntr1(_, _, _)
while_pntr1(lns, pntr1, cleaned) ==
    IF pntr1 >= Len(lns) THEN cleaned
    ELSE LET st == for_pntr2(lns, pntr1 + 1,
                             [pntr1 |-> pntr1, is_empty |-> TRUE, cleaned |-> cleaned])
         IN  while_pntr1(lns, st.pntr1 + 1,
                         st.cleaned \o slice_positions(st.pntr1, st.pntr1 + 1))

\* The positions (0-based) of the lines remove_empty_headers returns, in order.
kept_positions(lns) == while_pntr1(lns, 0, <<>>)

remove_empty_headers(lns) ==
    LET kept == kept_positions(lns)
    IN  [k \in 1..Len(kept) |-> lns[kept[k] + 1]]

(***************************************************************************)
(* The lines remove_empty_headers is tried on.                             *)
(***************************************************************************)
HeaderLine == <<"#", "#", "#", " ", "A", NL>>       \* "### A\n"
BlankLine == <<NL>>                                 \* "\n"
ContentLine == <<"x", NL>>                          \* "x\n"
HashLine == <<"#", "#", "#", NL>>                   \* "###\n": four characters, no header
SpaceLine == <<" ", NL>>                            \* " \n": whitespace, not blank

LineKinds == {HeaderLine, BlankLine, ContentLine, HashLine, SpaceLine}

SeqsUpTo(S, n) == UNION {[1..k -> S] : k \in 0..n}

(***************************************************************************)
(* bump_version                                                            *)
(***************************************************************************)
QUOTE == "\""

\* "__version__"
VersionMarker == <<"_", "_", "v", "e", "r", "s", "i", "o", "n", "_", "_">>

\* '"' + v + '"'
Quoted(v) == <<QUOTE>> \o v \o <<QUOTE>>

\* What bump_version hands back: the two returned strings, or the exception
\* it raised.
Returned(line, version) == [exc |-> "none", line |-> line, version |-> version]
Raised(exc) == [exc |-> exc, line |-> <<>>, version |-> <<>>]

\* curr_version = data[-1], replaced by pl_version in a pre-release bump.
curr_version_mut(last, pre_release) == last
curr_version(last, pre_release) == IF pre_release THEN pl_version ELSE last

\* str(int(split_version[1]) + 1)
bump_minor(minor) == IntToStr(ParseInt(minor) + 1)

\* split_version[2].replace('"', '-dev"')
add_dev(patch) == Replace(patch, <<QUOTE>>, <<"-", "d", "e", "v", QUOTE>>)

\* data with data[-1] = last
with_last(data, last) == [data EXCEPT ![Len(data)] = last]

bump_version(version_line, pre_release, pl_release) ==
    LET data == Split(version_line, " ")
        curr == curr_version(data[Len(data)], pre_release)
        split_version == Split(curr, ".")
    IN  IF pre_release /\ pl_release
        THEN Returned(Join(with_last(data, curr), " "), curr)
        ELSE IF Len(split_version) < 2 THEN Raised("IndexError")
        ELSE IF ~IsNumeric(split_version[2]) THEN Raised("ValueError")
        ELSE IF ~pre_release /\ Len(split_version) < 3 THEN Raised("IndexError")
        ELSE LET bumped == [split_version EXCEPT ![2] = bump_minor(@)]
                 suffixed == IF ~pre_release
                             THEN [bumped EXCEPT ![3] = add_dev(@)]
                             ELSE bumped
                 bumped_version == Join(suffixed, ".")
             IN  Returned(Join(with_last(data, bumped_version), " "), bumped_version)

(***************************************************************************)
(* update_changelog                                                        *)
(***************************************************************************)
\* (len(line) >= 3) and (line[:3] == "---")
is_boundary(line) == Len(line) >= 3 /\ SubSeq(line, 1, 3) = <<"-", "-", "-">>

\* The index of the first line starting with "---", 0 if there is none.
find_end_of_section(lns) ==
    IF \E i \in 1..Len(lns) : is_boundary(lns[i])
    THEN (CHOOSE i \in 1..Len(lns) :
              is_boundary(lns[i]) /\ \A j \in 1..(i - 1) : ~is_boundary(lns[j])) - 1
    ELSE 0

Placeholder == <<"x", ".", "x", ".", "x", "-", "d", "e", "v">>

\* The post-release branch: the template, its first line with the placeholder
\* replaced, then the changelog as it was.
post_release_lines(lns, template_lines, version) ==
    IF Len(template_lines) = 0 THEN Raised("IndexError")
    ELSE Returned(Concat([template_lines EXCEPT ![1] = Replace(@, Placeholder, version)])
                  \o Concat(lns), version)

\* The pre-release branch: the rewritten header, the pruned lines up to the
\* boundary, then the rest as it was.
pre_release_lines(lns, end_of_section_index, version) ==
    IF Len(lns) = 0 THEN Raised("IndexError")
    ELSE LET split_line == Split(lns[1], " ")
             new_line == Join(with_last(split_line, version), " ") \o <<NL>>
             cleaned_lines == remove_empty_headers(Slice(lns, 1, end_of_section_index))
             rest_of_changelog_lines == SliceFrom(lns, end_of_section_index)
         IN  Returned(new_line \o Concat(cleaned_lines) \o Concat(rest_of_changelog_lines),
                      version)

\* What update_changelog leaves in the changelog file (.line) and the
\* exception it raised, if any (.exc).  The file is opened for writing, and so
\* emptied, before either branch runs.
update_changelog(content, version, pre_release) ==
    LET lns == ReadLines(content)
        end_of_section_index == find_end_of_section(lns)
    IN  IF ~pre_release
        THEN post_release_lines(lns, ReadLines(template_file), version)
        ELSE pre_release_lines(lns, end_of_section_index, version)

(***************************************************************************)
(* The inputs of a run.                                                    *)
(***************************************************************************)
Unbound == <<"<unbound>">>

Dot(a, b, c) == a \o <<".">> \o b \o <<".">> \o c

\* "a.b.c" from three numbers
VersionStr(a, b, c) == Dot(IntToStr(a), IntToStr(b), IntToStr(c))

\* __version__ = "v" followed by the line ending e
VersionLine(v, e) == VersionMarker \o <<" ", "=", " ">> \o Quoted(v) \o e

Majors == 0..MaxMajor
Minors == {0, 9, 17}
Patches == {0, 3}

GoodVersions == {VersionStr(a, b, c) : a \in Majors, b \in Minors, c \in Patches}

\* Versions whose middle component is no number, or that lack components.
BadMinorVersion == Dot(<<"0">>, <<"x">>, <<"0">>)
ShortVersions == {<<"1", "7">>, <<"0", ".", "1", "7">>}

FileVersions == GoodVersions \cup {BadMinorVersion} \cup ShortVersions

CommentLine == <<"#", " ", "c", NL>>
OtherLine == <<"y", " ", "=", " ", "1", NL>>

VersionFiles ==
    {VersionLine(v, <<>>) : v \in FileVersions}
    \cup {VersionLine(v, <<NL>>) : v \in FileVersions}
    \cup {CommentLine \o VersionLine(v, <<NL>>) \o OtherLine : v \in FileVersions}
    \cup {VersionLine(VersionStr(0, 17, 0), <<NL>>) \o VersionLine(v, <<NL>>) :
              v \in {BadMinorVersion, VersionStr(1, 9, 3)}}
    \cup {CommentLine \o OtherLine, <<>>}

\* qml.version() of the installed PennyLane, as major, minor, patch
ReferenceTriples == {<<0, 18, 0>>, <<MaxMajor, 9, 3>>}
ReferenceVersions == {VersionStr(t[1], t[2], t[3]) : t \in ReferenceTriples}

ReleaseHeader == <<"#", " ", "R", "e", "l", "e", "a", "s", "e", " ",
                   "0", ".", "1", "7", ".", "0", "-", "d", "e", "v", NL>>
OldReleaseHeader == <<"#", " ", "R", "e", "l", "e", "a", "s", "e", " ",
                      "0", ".", "1", "6", ".", "0", NL>>
BoundaryLine == <<"-", "-", "-", NL>>

BodyKinds == {HeaderLine, BlankLine, ContentLine}

Changelogs ==
    {ReleaseHeader \o Concat(body) \o rest :
         body \in SeqsUpTo(BodyKinds, MaxBody),
         rest \in {<<>>, BoundaryLine \o OldReleaseHeader}}
    \cup {<<>>}

Templates ==
    {<<"#", " ", "R", "e", "l", "e", "a", "s", "e", " "
      >> \o Placeholder \o <<NL>> \o HeaderLine \o BlankLine \o BoundaryLine}

(***************************************************************************)
(* The run: __main__ calls update_version_file, then update_changelog.     *)
(***************************************************************************)
Init ==
    /\ pc = "main"
    /\ vf0 \in VersionFiles
    /\ cl0 \in Changelogs
    /\ template_file \in Templates
    /\ version_file = vf0
    /\ changelog_file = cl0
    /\ release_status \in BOOLEAN
    /\ pl_release_status \in BOOLEAN
    /\ pl_version \in {Quoted(r) : r \in ReferenceVersions}
    /\ lines = <<>>
    /\ idx = 0
    /\ new_version = Unbound
    /\ error = "none"
    /\ p_lines = <<>>
    /\ p_kept = <<>>
    /\ p_out = <<>>
    /\ p_again = <<>>
    /\ p_pc = 0

\* "__version__" in line.split(' ')
has_version_marker(line) ==
    \E k \in 1..Len(Split(line, " ")) : Split(line, " ")[k] = VersionMarker

\* new_version given a value before the loop.
VF_Open_mut ==
    /\ pc = "main"
    /\ lines' = ReadLines(version_file)
    /\ version_file' = <<>>
    /\ idx' = 0
    /\ new_version' = <<>>
    /\ pc' = "vf_loop"
    /\ UNCHANGED <<changelog_file, template_file, vf0, cl0, release_status,
                   pl_release_status, pl_version, error>>
    /\ UNCHANGED pruneVars

\* The file opened so that what is written is added to what it holds.
VF_Open_append ==
    /\ pc = "main"
    /\ lines' = ReadLines(version_file)
    /\ version_file' = version_file
    /\ idx' = 0
    /\ pc' = "vf_loop"
    /\ UNCHANGED <<changelog_file, template_file, vf0, cl0, release_status,
                   pl_release_status, pl_version, new_version, error>>
    /\ UNCHANGED pruneVars

\* update_version_file: the file is read, then opened for writing, which
\* empties it.
VF_Open ==
    /\ pc = "main"
    /\ lines' = ReadLines(version_file)
    /\ version_file' = <<>>
    /\ idx' = 0
    /\ pc' = "vf_loop"
    /\ UNCHANGED <<changelog_file, template_file, vf0, cl0, release_status,
                   pl_release_status, pl_version, new_version, error>>
    /\ UNCHANGED pruneVars

\* One turn of "for line in lines".  What is written reaches the file when
\* the with block is left, also when an exception leaves it.
VF_Line ==
    /\ pc = "vf_loop"
    /\ idx < Len(lines)
    /\ LET line == lines[idx + 1]
           r == bump_version(line, release_status, pl_release_status)
       IN  IF ~has_version_marker(line)
           THEN /\ version_file' = version_file \o line
                /\ idx' = idx + 1
                /\ UNCHANGED <<new_version, pc, error>>
           ELSE IF r.exc = "none"
           THEN /\ version_file' = version_file \o r.line
                /\ new_version' = r.version
                /\ idx' = idx + 1
                /\ UNCHANGED <<pc, error>>
           ELSE /\ pc' = "aborted"
                /\ error' = r.exc
                /\ UNCHANGED <<version_file, new_version, idx>>
    /\ UNCHANGED <<changelog_file, template_file, vf0, cl0, release_status,
                   pl_release_status, pl_version, lines>>
    /\ UNCHANGED pruneVars

\* return new_version
VF_Return ==
    /\ pc = "vf_loop"
    /\ idx = Len(lines)
    /\ IF new_version = Unbound
       THEN pc' = "aborted" /\ error' = "UnboundLocalError"
       ELSE pc' = "changelog" /\ UNCHANGED error
    /\ UNCHANGED <<version_file, changelog_file, template_file, vf0, cl0, release_status,
                   pl_release_status, pl_version, lines, idx, new_version>>
    /\ UNCHANGED pruneVars

\* update_changelog(args.changelog_path, updated_version, args.release_status)
UpdateChangelog ==
    /\ pc = "changelog"
    /\ LET r == update_changelog(changelog_file, new_version, release_status)
       IN  /\ changelog_file' = r.line
           /\ IF r.exc = "none"
              THEN pc' = "done" /\ UNCHANGED error
              ELSE pc' = "aborted" /\ error' = r.exc
    /\ UNCHANGED <<version_file, template_file, vf0, cl0, release_status,
                   pl_release_status, pl_version, lines, idx, new_version>>
    /\ UNCHANGED pruneVars

Next == VF_Open \/ VF_Line \/ VF_Return \/ UpdateChangelog

Spec == Init /\ [][Next]_vars

(***************************************************************************)
(* remove_empty_headers on its own: applied to a list of lines, then to    *)
(* its own result.                                                         *)
(***************************************************************************)
InitPrune ==
    /\ p_lines \in SeqsUpTo(LineKinds, MaxLines)
    /\ p_kept = <<>>
    /\ p_out = <<>>
    /\ p_again = <<>>
    /\ p_pc = 0
    /\ pc = "prune"
    /\ vf0 = <<>>
    /\ cl0 = <<>>
    /\ template_file = <<>>
    /\ version_file = <<>>
    /\ changelog_file = <<>>
    /\ release_status = TRUE
    /\ pl_release_status = FALSE
    /\ pl_version = <<>>
    /\ lines = <<>>
    /\ idx = 0
    /\ new_version = Unbound
    /\ error = "none"

Prune ==
    /\ p_pc = 0
    /\ p_kept' = kept_positions(p_lines)
    /\ p_out' = remove_empty_headers(p_lines)
    /\ p_pc' = 1
    /\ UNCHANGED <<p_lines, p_again>>
    /\ UNCHANGED mainVars

PruneAgain ==
    /\ p_pc = 1
    /\ p_again' = remove_empty_headers(p_out)
    /\ p_pc' = 2
    /\ UNCHANGED <<p_lines, p_kept, p_out>>
    /\ UNCHANGED mainVars

NextPrune == Prune \/ PruneAgain

SpecPrune == InitPrune /\ [][NextPrune]_vars

(***************************************************************************)
(* Properties of remove_empty_headers, under SpecPrune.                    *)
(***************************************************************************)
Range(f) == {f[k] : k \in DOMAIN f}

\* Position h (0-based) of lns holds a header.
HeaderAt(lns, h) == h < Len(lns) /\ is_header(lns[h + 1])

\* Position i belongs to the span that starts at position h: no header lies
\* in h+1..i.
InSpanOf(lns, h, i) == h <= i /\ \A j \in (h + 1)..i : ~HeaderAt(lns, j)

\* The span that starts at position h holds nothing but blank lines after h.
SpanEmpty(lns, h) ==
    \A i \in (h + 1)..(Len(lns) - 1) : InSpanOf(lns, h, i) => is_blank(lns[i + 1])

\* A subsection whose header is at a position greater than 0 and that is empty.
EmptySubsection(lns, h) == h > 0 /\ HeaderAt(lns, h) /\ SpanEmpty(lns, h)

\* C1: no empty subsection whose header is at an index greater than 0 appears
\* in the output of remove_empty_headers: its header is not among the lines
\* kept, be it a trailing subsection or one of several consecutive ones.
C1_EmptySubsectionsRemoved ==
    p_pc >= 1 =>
        \A h \in 1..(Len(p_lines) - 1) :
            EmptySubsection(p_lines, h) => h \notin Range(p_kept)

\* C2: remove_empty_headers is idempotent: applied to its own result it
\* returns that result.
C2_Idempotent == p_pc = 2 => p_again = p_out

C2_Witness ==
    /\ p_pc = 2
    /\ Len(p_out) < Len(p_lines)
    /\ Len(p_out) >= 3
    /\ \E k \in 2..Len(p_out) : is_header(p_out[k])

\* C3: the output is the input with nothing but empty subsections that start
\* after index 0 deleted: the kept positions increase strictly (an
\* order-preserving subsequence, no line twice), a deleted line lies in an
\* empty subsection whose header is after index 0, so the whole initial region
\* is kept, and every line that is neither blank nor a header is kept together
\* with the header of its subsection.
C3_OnlyEmptySubsectionsDeleted ==
    p_pc >= 1 =>
        /\ \A k \in 1..Len(p_kept) : p_kept[k] \in 0..(Len(p_lines) - 1)
        /\ \A k \in 1..(Len(p_kept) - 1) : p_kept[k] < p_kept[k + 1]
        /\ Len(p_out) = Len(p_kept)
        /\ \A k \in 1..Len(p_kept) : p_out[k] = p_lines[p_kept[k] + 1]
        /\ \A i \in 0..(Len(p_lines) - 1) :
               i \notin Range(p_kept) =>
                   \E h \in 1..i : EmptySubsection(p_lines, h) /\ InSpanOf(p_lines, h, i)
        /\ \A i \in 0..(Len(p_lines) - 1) :
               InSpanOf(p_lines, 0, i) => i \in Range(p_kept)
        /\ \A i \in 0..(Len(p_lines) - 1) :
               (~is_blank(p_lines[i + 1]) /\ ~is_header(p_lines[i + 1])) =>
                   /\ i \in Range(p_kept)
                   /\ \A h \in 0..i :
                          (HeaderAt(p_lines, h) /\ InSpanOf(p_lines, h, i)) =>
                              h \in Range(p_kept)

\* A header at index 0 followed only by a blank line, then an empty subsection
\* that is deleted, then a subsection with content.
C3_Witness ==
    /\ p_pc >= 1
    /\ Len(p_lines) >= 5
    /\ is_header(p_lines[1])
    /\ is_blank(p_lines[2])
    /\ EmptySubsection(p_lines, 2)
    /\ 2 \notin Range(p_kept)
    /\ 0 \in Range(p_kept)
    /\ \E i \in 3..(Len(p_lines) - 1) :
           ~is_blank(p_lines[i + 1]) /\ ~is_header(p_lines[i + 1]) /\ i \in Range(p_kept)

(***************************************************************************)
(* Properties of a run, under Spec.                                        *)
(***************************************************************************)
DEV == <<"-", "d", "e", "v">>

EndsWithNL(line) == Len(line) > 0 /\ line[Len(line)] = NL

IsSuffix(t, s) == Len(t) <= Len(s) /\ SubSeq(s, Len(s) - Len(t) + 1, Len(s)) = t

\* A version without the quotes and the line break around it.
Bare(v) == SelectSeq(v, LAMBDA ch : ch # QUOTE /\ ch # NL)

\* update_version_file has just rewritten the version line lines[idx - 1].
JustBumped == pc = "vf_loop" /\ idx >= 1 /\ has_version_marker(lines[idx])

\* C4: a post-release bump of the line __version__ = "a.b.c" writes the line
\* __version__ = "a.(b+1).c-dev" and returns the version a.(b+1).c-dev (read
\* here with or without the quotes of the literal).
C4_PostReleaseBump ==
    (JustBumped /\ ~release_status) =>
        \A a \in Majors, b \in Minors, c \in Patches, e \in {<<>>, <<NL>>} :
            lines[idx] = VersionLine(VersionStr(a, b, c), e) =>
                /\ ReadLines(version_file)[idx]
                       = VersionLine(VersionStr(a, b + 1, c) \o DEV, e)
                /\ new_version \in {VersionStr(a, b + 1, c) \o DEV,
                                    Quoted(VersionStr(a, b + 1, c) \o DEV)}

\* C5: in a pre-release bump the returned version comes from the reference
\* version x.y.z alone, whatever version the line holds: pl_version itself
\* when pl_release is true, x.(y+1).z with no -dev suffix when it is false;
\* it is the last token of the rewritten line.
C5_PreReleaseFromReference ==
    (release_status /\ new_version # Unbound) =>
        /\ \A t \in ReferenceTriples :
               pl_version = Quoted(VersionStr(t[1], t[2], t[3])) =>
                   new_version = IF pl_release_status
                                 THEN Quoted(VersionStr(t[1], t[2], t[3]))
                                 ELSE Quoted(VersionStr(t[1], t[2] + 1, t[3]))
        /\ JustBumped => IsSuffix(<<" ">> \o new_version, version_file)

\* The line holds 0.17.0, the reference version is MaxMajor.9.3 and PennyLane is
\* not yet released: the run goes on with MaxMajor.10.3.
C5_Witness ==
    /\ pc = "changelog"
    /\ release_status
    /\ ~pl_release_status
    /\ vf0 = VersionLine(VersionStr(0, 17, 0), <<NL>>)
    /\ pl_version = Quoted(VersionStr(MaxMajor, 9, 3))
    /\ new_version = Quoted(VersionStr(MaxMajor, 10, 3))

\* C6: a post-release run leaves the changelog as the template lines, the
\* placeholder of the first one replaced by the bare new version, followed by
\* the changelog as it was.
C6_PostReleaseChangelog ==
    (pc = "done" /\ ~release_status) =>
        changelog_file =
            Concat([ReadLines(template_file) EXCEPT
                        ![1] = Replace(@, Placeholder, Bare(new_version))]) \o cl0

\* C7: update_version_file leaves as many lines as it read, every line without
\* the __version__ token unchanged at its position, and the version line a
\* single line that still ends with a line break when it did.
C7_OnlyVersionLineChanged ==
    pc \in {"changelog", "done"} =>
        LET out == ReadLines(version_file)
        IN  /\ Len(out) = Len(lines)
            /\ \A k \in 1..Len(lines) :
                   IF has_version_marker(lines[k])
                   THEN EndsWithNL(lines[k]) => EndsWithNL(out[k])
                   ELSE out[k] = lines[k]

\* C8: a pre-release run on a non-empty changelog writes the rewritten header,
\* the pruned lines between index 1 and the boundary, then the lines from the
\* boundary on, so that the old header is gone and no line of the changelog
\* appears more often than before.
C8_PreReleaseChangelog ==
    (pc = "done" /\ release_status /\ cl0 # <<>>) =>
        LET lns == ReadLines(cl0)
            out == ReadLines(changelog_file)
            b == find_end_of_section(lns)
            header == Join(with_last(Split(lns[1], " "), new_version), " ") \o <<NL>>
        IN  /\ out = <<header>> \o remove_empty_headers(Slice(lns, 1, b)) \o SliceFrom(lns, b)
            /\ Len(out) <= Len(lns)
            /\ lns[1] \notin Range(out)

NoVersionLine == \A k \in 1..Len(ReadLines(vf0)) : ~has_version_marker(ReadLines(vf0)[k])

\* C9: with no __version__ line in the version file, new_version is never
\* assigned, update_changelog is never reached and the changelog stays as it
\* was; the run ends in the unbound-variable error, with the version file
\* rewritten to what it held.
C9_NoVersionLineAborts ==
    NoVersionLine =>
        /\ new_version = Unbound
        /\ pc \notin {"changelog", "done"}
        /\ changelog_file = cl0
        /\ (pc = "aborted" => (error = "UnboundLocalError" /\ version_file = vf0))

C9_Witness ==
    /\ NoVersionLine
    /\ pc = "aborted"
    /\ Len(lines) = 2
    /\ idx = 2

ParseErrorAbort == pc = "aborted" /\ error = "ValueError" /\ ~release_status

\* C10 as stated: after a parse error in a post-release bump the version file
\* holds what it held and the changelog is untouched.
C10_FileLeftIntact ==
    ParseErrorAbort => (version_file = vf0 /\ changelog_file = cl0)

\* C10 amended: after a parse error in a post-release bump the version file
\* holds only the lines written before the failing version line, the lines
\* without the __version__ token as they were; the failing line and every line
\* after it are lost.  The changelog is untouched.
C10_FileTruncated ==
    ParseErrorAbort =>
        LET orig == ReadLines(vf0)
            out == ReadLines(version_file)
        IN  /\ changelog_file = cl0
            /\ idx < Len(orig)
            /\ has_version_marker(orig[idx + 1])
            /\ Len(out) = idx
            /\ \A k \in 1..idx : ~has_version_marker(orig[k]) => out[k] = orig[k]
            /\ version_file # vf0

\* The failing version line is the second of three lines: the first is
\* written back, the other two are lost.
C10_Witness ==
    /\ ParseErrorAbort
    /\ idx = 1
    /\ Len(ReadLines(vf0)) = 3
    /\ version_file = CommentLine

====
